---- MODULE Spec2Model ----
(***************************************************************************)
(* confluence-sync: two HTTP entry points (HttpTrigger, ConfluenceSync)    *)
(* construct a ConfluenceSync session for a wiki space and mirror its      *)
(* pages into an Azure blob container, either by a recursive full crawl    *)
(* (process_page_full) or by re-uploading the pages a CQL query returns    *)
(* (process_page_incremental).                                             *)
(*                                                                         *)
(* Strings that the program takes apart (titles, paths, blob names) are    *)
(* sequences of one-character strings; ".html" is one token.  Page ids are *)
(* 1..n.  A page body is the pair (page, revision) and the timestamp of a  *)
(* revision (version.when) is the revision number.                         *)
(***************************************************************************)
EXTENDS Integers, Sequences, FiniteSets, TLC

\* ------------------------------------------------------------------ bounds
MaxPages == 4
MaxFailures == 1
MaxEdits == 1

\* ------------------------------------------------------------------ inputs
Absent == "<absent>"
SpaceInputs == {Absent, "", "SIA", "OPS"}
TypeInputs == {Absent, "", "full", "incremental", "archive"}
Letters == <<"a", "b", "c", "d", "e", "f">>
\* the titles tried for page p: its own letter, plain or with a character that
\* means something in a path (a trailing backslash, a leading slash)
Plain(p) == <<Letters[p]>>
TitlesOf(p) ==
    { Plain(p),
      IF p % 2 = 1 THEN <<Letters[p], "\\">> ELSE <<"/", Letters[p]>> }
Html == <<".html">>

VARIABLES
    parent,     \* wiki: page -> parent page (0 for the root)
    title,      \* wiki: page -> title
    rev,        \* wiki: page -> current revision (body and version.when)
    edits,      \* number of upstream edits so far
    exists,     \* storage: the containers that exist
    store,      \* storage: container -> set of blobs [name, content, metadata]
    pc,         \* position of the function host: idle or inside main
    req,        \* the request being (or last) handled
    resp,       \* status code of the last response (0: none yet)
    session,    \* <<>> or <<the ConfluenceSync object>>
    stack,      \* call stack of process_page_full, innermost frame first
    inc,        \* locals of process_page_incremental
    up,         \* <<>> or <<the pending upload_to_azure_blob call>>
    log,        \* upstream calls of the current request, in order
    fails,      \* upstream failures so far
    hist,       \* completed requests, with the storage they left behind
    quota       \* what the environment does: requests sent, upstream failures

vars == <<parent, title, rev, edits, exists, store, pc, req, resp,
          session, stack, inc, up, log, fails, hist, quota>>

wiki == <<parent, title, quota>>

\* ------------------------------------------------------------- pure helpers
Pages == DOMAIN parent

RECURSIVE Asc(_)
Asc(S) ==
    IF S = {} THEN <<>>
    ELSE LET m == CHOOSE x \in S : \A y \in S : x <= y
         IN <<m>> \o Asc(S \ {m})

\* get_page_ancestors: root-to-parent
RECURSIVE Ancestors(_)
Ancestors(p) ==
    IF parent[p] = 0 THEN <<>> ELSE Append(Ancestors(parent[p]), parent[p])

\* the 'results' of GET <page>/child/page
ChildIds(p) == Asc({c \in Pages : parent[c] = p})

Descendants(p) == {d \in Pages : \E i \in 1..Len(Ancestors(d)) : Ancestors(d)[i] = p}

\* posixpath.join(a, b)
PathJoin(a, b) ==
    IF b # <<>> /\ b[1] = "/" THEN b
    ELSE IF a = <<>> \/ a[Len(a)] = "/" THEN a \o b
    ELSE a \o <<"/">> \o b

\* s.replace("\\", "/")
ReplaceBackslash(s) == [i \in 1..Len(s) |-> IF s[i] = "\\" THEN "/" ELSE s[i]]

\* '/'.join(parts)
RECURSIVE SlashJoin(_)
SlashJoin(parts) ==
    IF parts = <<>> THEN <<>>
    ELSE IF Len(parts) = 1 THEN parts[1]
    ELSE parts[1] \o <<"/">> \o SlashJoin(Tail(parts))

\* os.path.join(path, f"{title}.html").replace("\\", "/")
BlobName(path, t) == ReplaceBackslash(PathJoin(path, t \o Html))

\* build_full_path
BuildPath(p) == SlashJoin([i \in 1..Len(Ancestors(p)) |-> title[Ancestors(p)[i]]])

\* self.container_name
ContainerName(space) == IF space = "SIA" THEN "public" ELSE "private"

\* `not v` for a request parameter
IsFalsyMutant(v) == v = Absent
IsFalsy(v) == v \in {Absent, ""}

\* blob_client.upload_blob(content, overwrite=True): Put Blob replaces the
\* blob and, no metadata being passed, leaves it without metadata
PutBlobMutant(blobs, name, content) ==
    IF \E b \in blobs : b.name = name
    THEN blobs \cup {[name |-> name \o <<"(1)">>, content |-> content, metadata |-> {}]}
    ELSE blobs \cup {[name |-> name, content |-> content, metadata |-> {}]}
PutBlob(blobs, name, content) ==
    {b \in blobs : b.name # name}
        \cup {[name |-> name, content |-> content, metadata |-> {}]}

\* blob_client.set_blob_metadata(metadata)
SetMetadata(blobs, name, metadata) ==
    {IF b.name = name THEN [b EXCEPT !.metadata = metadata] ELSE b : b \in blobs}

\* statement order of process_page_full's try block
ThenMutant(step) ==
    CASE step = "get_page_content" -> "get_child_pages"
      [] step = "get_child_pages" -> "for"
      [] step = "for" -> "upload"
      [] step = "upload" -> "return"
Then(step) ==
    CASE step = "get_page_content" -> "upload"
      [] step = "upload" -> "get_child_pages"
      [] step = "get_child_pages" -> "for"
      [] step = "for" -> "return"

\* an exception inside upload_to_azure_blob is caught there: the caller goes on
UploadRaisedMutant(stk) == IF stk = <<>> THEN stk ELSE Tail(stk)
UploadRaised(stk) == stk

\* an exception inside one process_page_full call is caught by that call
PageRaisedMutant(stk) == <<>>
PageRaised(stk) == Tail(stk)

Frame(p, path) ==
    [page |-> p, path |-> path, pc |-> "get_page_content", title |-> <<>>,
     rev |-> 0, children |-> <<>>, i |-> 1]

NoInc == [pc |-> "none", ids |-> <<>>, i |-> 1, title |-> <<>>, rev |-> 0]

Event(op, p, ok, name) == [op |-> op, page |-> p, ok |-> ok, name |-> name]

NoReq == [entry |-> "none", malformed |-> FALSE, space |-> Absent, type |-> Absent]

\* ------------------------------------------------------------------- Init
InitState ==
    /\ \E n \in 1..MaxPages :
         /\ parent \in {f \in [1..n -> 0..(n - 1)] :
                          /\ f[1] = 0
                          /\ \A p \in 2..n : f[p] \in 1..(p - 1)}
         \* Confluence keeps page titles unique within a space: each page has
         \* a letter of its own, and at most one title is not plain
         /\ \E s \in 1..n : \E t \in TitlesOf(s) :
               title = [p \in 1..n |-> IF p = s THEN t ELSE Plain(p)]
         /\ rev = [p \in 1..n |-> 1]
    /\ edits = 0
    /\ exists = {}
    /\ store = [c \in {"public", "private"} |-> {}]
    /\ pc = "idle"
    /\ req = NoReq
    /\ resp = 0
    /\ session = <<>>
    /\ stack = <<>>
    /\ inc = NoInc
    /\ up = <<>>
    /\ log = <<>>
    /\ fails = 0
    /\ hist = <<>>

\* the handling of one request, in which upstream calls may fail
Init ==
    /\ InitState
    /\ quota = [requests |-> 1, failures |-> MaxFailures]

\* two requests in sequence against upstream services that do not fail
InitFullTwice ==
    /\ InitState
    /\ quota = [requests |-> 2, failures |-> 0]

\* func.HttpResponse(..., status_code=status)
Respond(status) ==
    /\ resp' = status
    /\ pc' = "idle"
    /\ hist' = Append(hist, [space |-> req.space, type |-> req.type,
                             status |-> status, store |-> store, rev |-> rev])

MayFail == fails < quota.failures

\* ------------------------------------------------------------ the upstream
\* a wiki user edits a page between two requests
EditPage(p) ==
    /\ pc = "idle"
    /\ hist # <<>>
    /\ Len(hist) < quota.requests
    /\ edits < MaxEdits
    /\ rev' = [rev EXCEPT ![p] = @ + 1]
    /\ edits' = edits + 1
    /\ UNCHANGED <<wiki, exists, store, pc, req, resp, session, stack, inc, up,
                   log, fails, hist>>

\* ------------------------------------------------------------ entry points
Accept(r) ==
    /\ pc = "idle"
    /\ Len(hist) < quota.requests
    /\ req' = r
    /\ log' = <<>>
    /\ session' = <<>>
    /\ stack' = <<>>
    /\ inc' = NoInc
    /\ up' = <<>>
    /\ UNCHANGED <<wiki, rev, edits, exists, store, fails>>

\* HttpTrigger.main, up to the construction of the session
HttpTriggerMain(space, type) ==
    LET r == [entry |-> "HttpTrigger", malformed |-> FALSE,
              space |-> space, type |-> type]
    IN /\ Accept(r)
       /\ IF IsFalsy(space) \/ IsFalsy(type)
          THEN /\ resp' = 400
               /\ pc' = "idle"
               /\ hist' = Append(hist, [space |-> space, type |-> type,
                                        status |-> 400, store |-> store, rev |-> rev])
          ELSE /\ pc' = "create_container"
               /\ UNCHANGED <<resp, hist>>

\* ConfluenceSync.main, up to the construction of the session
ConfluenceSyncMain(malformed, space, type) ==
    LET r == [entry |-> "ConfluenceSync", malformed |-> malformed,
              space |-> space, type |-> type]
    IN /\ Accept(r)
       /\ IF malformed \/ space = Absent \/ type = Absent
             \/ IsFalsy(space) \/ IsFalsy(type)
          THEN /\ resp' = 400
               /\ pc' = "idle"
               /\ hist' = Append(hist, [space |-> space, type |-> type,
                                        status |-> 400, store |-> store, rev |-> rev])
          ELSE /\ pc' = "create_container"
               /\ UNCHANGED <<resp, hist>>

\* ------------------------------------------------- ConfluenceSync.__init__
CreateContainer ==
    /\ pc = "create_container"
    /\ session' = <<[space |-> req.space, container |-> ContainerName(req.space), root |-> 0]>>
    /\ exists' = exists \cup {ContainerName(req.space)}
    /\ log' = Append(log, Event("create_container", 0, TRUE, <<>>))
    /\ pc' = "get_root_page_id"
    /\ UNCHANGED <<wiki, rev, edits, store, req, resp, stack, inc, up, fails, hist>>

CreateContainerFails ==
    /\ pc = "create_container"
    /\ MayFail
    /\ fails' = fails + 1
    /\ session' = <<[space |-> req.space, container |-> ContainerName(req.space), root |-> 0]>>
    /\ log' = Append(log, Event("create_container", 0, FALSE, <<>>))
    /\ pc' = "get_root_page_id"
    /\ UNCHANGED <<wiki, rev, edits, exists, store, req, resp, stack, inc, up, hist>>

GetRootPageId ==
    /\ pc = "get_root_page_id"
    /\ \E p \in Pages :
         LET a == Ancestors(p)
             root == IF a = <<>> THEN p ELSE a[1]
         IN session' = <<[session[1] EXCEPT !.root = root]>>
    /\ log' = Append(log, Event("get_root_page_id", 0, TRUE, <<>>))
    /\ pc' = "dispatch"
    /\ UNCHANGED <<wiki, rev, edits, exists, store, req, resp, stack, inc, up, fails, hist>>

\* the space has no page: [0] raises, main answers 500
GetRootPageIdNoPages ==
    /\ pc = "get_root_page_id"
    /\ log' = Append(log, Event("get_root_page_id", 0, FALSE, <<>>))
    /\ Respond(500)
    /\ UNCHANGED <<wiki, rev, edits, exists, store, req, session, stack, inc, up, fails>>

GetRootPageIdFails ==
    /\ pc = "get_root_page_id"
    /\ MayFail
    /\ fails' = fails + 1
    /\ log' = Append(log, Event("get_root_page_id", 0, FALSE, <<>>))
    /\ Respond(500)
    /\ UNCHANGED <<wiki, rev, edits, exists, store, req, session, stack, inc, up>>

\* ------------------------------------------------------ main: the dispatch
DispatchFull ==
    /\ pc = "dispatch"
    /\ req.type = "full"
    /\ stack' = <<Frame(session[1].root, <<>>)>>
    /\ pc' = "full"
    /\ UNCHANGED <<wiki, rev, edits, exists, store, req, resp, session, inc, up,
                   log, fails, hist>>

DispatchIncremental ==
    /\ pc = "dispatch"
    /\ req.type = "incremental"
    /\ inc' = [NoInc EXCEPT !.pc = "cql"]
    /\ pc' = "incremental"
    /\ UNCHANGED <<wiki, rev, edits, exists, store, req, resp, session, stack, up,
                   log, fails, hist>>

DispatchInvalid ==
    /\ pc = "dispatch"
    /\ req.type \notin {"full", "incremental"}
    /\ Respond(400)
    /\ UNCHANGED <<wiki, rev, edits, exists, store, req, session, stack, inc, up,
                   log, fails>>

\* ------------------------------------------------------ process_page_full
InFull == pc = "full" /\ stack # <<>> /\ up = <<>>

Top == stack[1]

SetTop(f) == <<f>> \o Tail(stack)

\* the innermost call goes on with the statement after `step`; after the last
\* statement it returns
Advance(step) ==
    IF Then(step) = "return" THEN Tail(stack)
    ELSE SetTop([Top EXCEPT !.pc = Then(step)])

GetPageContent ==
    /\ InFull
    /\ Top.pc = "get_page_content"
    /\ stack' = SetTop([Top EXCEPT !.title = title[Top.page], !.rev = rev[Top.page],
                                   !.pc = Then("get_page_content")])
    /\ log' = Append(log, Event("get_page_content", Top.page, TRUE, <<>>))
    /\ UNCHANGED <<wiki, rev, edits, exists, store, pc, req, resp, session, inc, up,
                   fails, hist>>

GetPageContentFails ==
    /\ InFull
    /\ Top.pc = "get_page_content"
    /\ MayFail
    /\ fails' = fails + 1
    /\ stack' = PageRaised(stack)
    /\ log' = Append(log, Event("get_page_content", Top.page, FALSE, <<>>))
    /\ UNCHANGED <<wiki, rev, edits, exists, store, pc, req, resp, session, inc, up, hist>>

\* blob_name, metadata, and the call of upload_to_azure_blob
CallUpload ==
    /\ InFull
    /\ Top.pc = "upload"
    /\ LET name == BlobName(Top.path, Top.title)
       IN /\ up' = <<[name |-> name, page |-> Top.page, rev |-> Top.rev,
                      metadata |-> {<<"created_date", Top.rev>>},
                      step |-> "upload_blob"]>>
          /\ log' = Append(log, Event("upload", Top.page, TRUE, name))
    /\ stack' = Advance("upload")
    /\ UNCHANGED <<wiki, rev, edits, exists, store, pc, req, resp, session, inc,
                   fails, hist>>

GetChildPages ==
    /\ InFull
    /\ Top.pc = "get_child_pages"
    /\ stack' = SetTop([Top EXCEPT !.children = ChildIds(Top.page), !.i = 1,
                                   !.pc = Then("get_child_pages")])
    /\ log' = Append(log, Event("get_child_pages", Top.page, TRUE, <<>>))
    /\ UNCHANGED <<wiki, rev, edits, exists, store, pc, req, resp, session, inc, up,
                   fails, hist>>

GetChildPagesFails ==
    /\ InFull
    /\ Top.pc = "get_child_pages"
    /\ MayFail
    /\ fails' = fails + 1
    /\ stack' = PageRaised(stack)
    /\ log' = Append(log, Event("get_child_pages", Top.page, FALSE, <<>>))
    /\ UNCHANGED <<wiki, rev, edits, exists, store, pc, req, resp, session, inc, up, hist>>

\* one iteration of the loop over child_pages: the recursive call
Recurse ==
    /\ InFull
    /\ Top.pc = "for"
    /\ Top.i <= Len(Top.children)
    /\ stack' = <<Frame(Top.children[Top.i], PathJoin(Top.path, Top.title)),
                  [Top EXCEPT !.i = @ + 1]>> \o Tail(stack)
    /\ UNCHANGED <<wiki, rev, edits, exists, store, pc, req, resp, session, inc, up,
                   log, fails, hist>>

EndFor ==
    /\ InFull
    /\ Top.pc = "for"
    /\ Top.i > Len(Top.children)
    /\ stack' = Advance("for")
    /\ UNCHANGED <<wiki, rev, edits, exists, store, pc, req, resp, session, inc, up,
                   log, fails, hist>>

\* main: process_page_full has returned
FullDone ==
    /\ pc = "full"
    /\ stack = <<>>
    /\ up = <<>>
    /\ Respond(200)
    /\ UNCHANGED <<wiki, rev, edits, exists, store, req, session, stack, inc, up,
                   log, fails>>

\* --------------------------------------------------- upload_to_azure_blob
Uploading(step) == up # <<>> /\ up[1].step = step

Container == session[1].container

UploadBlob ==
    /\ Uploading("upload_blob")
    /\ Container \in exists
    /\ store' = [store EXCEPT ![Container] =
                    PutBlob(@, up[1].name, [page |-> up[1].page, rev |-> up[1].rev])]
    /\ up' = <<[up[1] EXCEPT !.step = "set_blob_metadata"]>>
    /\ log' = Append(log, Event("upload_blob", up[1].page, TRUE, up[1].name))
    /\ UNCHANGED <<wiki, rev, edits, exists, pc, req, resp, session, stack, inc,
                   fails, hist>>

\* the container could not be created: the service answers ContainerNotFound
UploadBlobNoContainer ==
    /\ Uploading("upload_blob")
    /\ Container \notin exists
    /\ up' = <<>>
    /\ stack' = UploadRaised(stack)
    /\ log' = Append(log, Event("upload_blob", up[1].page, FALSE, up[1].name))
    /\ UNCHANGED <<wiki, rev, edits, exists, store, pc, req, resp, session, inc,
                   fails, hist>>

UploadBlobFails ==
    /\ Uploading("upload_blob")
    /\ Container \in exists
    /\ MayFail
    /\ fails' = fails + 1
    /\ up' = <<>>
    /\ stack' = UploadRaised(stack)
    /\ log' = Append(log, Event("upload_blob", up[1].page, FALSE, up[1].name))
    /\ UNCHANGED <<wiki, rev, edits, exists, store, pc, req, resp, session, inc, hist>>

SetBlobMetadata ==
    /\ Uploading("set_blob_metadata")
    /\ store' = [store EXCEPT ![Container] =
                    SetMetadata(@, up[1].name, up[1].metadata)]
    /\ up' = <<>>
    /\ log' = Append(log, Event("set_blob_metadata", up[1].page, TRUE, up[1].name))
    /\ UNCHANGED <<wiki, rev, edits, exists, pc, req, resp, session, stack, inc,
                   fails, hist>>

SetBlobMetadataFails ==
    /\ Uploading("set_blob_metadata")
    /\ MayFail
    /\ fails' = fails + 1
    /\ up' = <<>>
    /\ stack' = UploadRaised(stack)
    /\ log' = Append(log, Event("set_blob_metadata", up[1].page, FALSE, up[1].name))
    /\ UNCHANGED <<wiki, rev, edits, exists, store, pc, req, resp, session, inc, hist>>

\* ----------------------------------------------- process_page_incremental
InInc(at) == pc = "incremental" /\ up = <<>> /\ inc.pc = at

\* an exception anywhere in the try block leaves the loop
IncRaised == [inc EXCEPT !.pc = "done"]

\* confluence.cql: the pages the service reports as modified in the window
Cql(S) ==
    /\ InInc("cql")
    /\ inc' = [inc EXCEPT !.ids = Asc(S), !.i = 1, !.pc = "get_page_content"]
    /\ log' = Append(log, Event("cql", 0, TRUE, <<>>))
    /\ UNCHANGED <<wiki, rev, edits, exists, store, pc, req, resp, session, stack, up,
                   fails, hist>>

CqlFails ==
    /\ InInc("cql")
    /\ MayFail
    /\ fails' = fails + 1
    /\ inc' = IncRaised
    /\ log' = Append(log, Event("cql", 0, FALSE, <<>>))
    /\ UNCHANGED <<wiki, rev, edits, exists, store, pc, req, resp, session, stack, up, hist>>

IncPage == inc.ids[inc.i]

IncGetPageContent ==
    /\ InInc("get_page_content")
    /\ inc.i <= Len(inc.ids)
    /\ inc' = [inc EXCEPT !.title = title[IncPage], !.rev = rev[IncPage],
                          !.pc = "build_full_path"]
    /\ log' = Append(log, Event("get_page_content", IncPage, TRUE, <<>>))
    /\ UNCHANGED <<wiki, rev, edits, exists, store, pc, req, resp, session, stack, up,
                   fails, hist>>

IncGetPageContentFails ==
    /\ InInc("get_page_content")
    /\ inc.i <= Len(inc.ids)
    /\ MayFail
    /\ fails' = fails + 1
    /\ inc' = IncRaised
    /\ log' = Append(log, Event("get_page_content", IncPage, FALSE, <<>>))
    /\ UNCHANGED <<wiki, rev, edits, exists, store, pc, req, resp, session, stack, up, hist>>

\* build_full_path, blob_name, metadata, and the call of upload_to_azure_blob
BuildFullPath ==
    /\ InInc("build_full_path")
    /\ LET name == BlobName(BuildPath(IncPage), inc.title)
       IN /\ up' = <<[name |-> name, page |-> IncPage, rev |-> inc.rev,
                      metadata |-> {<<"created_date", inc.rev>>},
                      step |-> "upload_blob"]>>
          /\ log' = log \o <<Event("get_page_ancestors", IncPage, TRUE, <<>>),
                             Event("upload", IncPage, TRUE, name)>>
    /\ inc' = [inc EXCEPT !.i = @ + 1, !.pc = "get_page_content"]
    /\ UNCHANGED <<wiki, rev, edits, exists, store, pc, req, resp, session, stack,
                   fails, hist>>

BuildFullPathFails ==
    /\ InInc("build_full_path")
    /\ MayFail
    /\ fails' = fails + 1
    /\ inc' = IncRaised
    /\ log' = Append(log, Event("get_page_ancestors", IncPage, FALSE, <<>>))
    /\ UNCHANGED <<wiki, rev, edits, exists, store, pc, req, resp, session, stack, up, hist>>

\* main: process_page_incremental has returned
IncrementalDone ==
    /\ pc = "incremental"
    /\ up = <<>>
    /\ \/ inc.pc = "done"
       \/ inc.pc = "get_page_content" /\ inc.i > Len(inc.ids)
    /\ Respond(200)
    /\ UNCHANGED <<wiki, rev, edits, exists, store, req, session, stack, inc, up,
                   log, fails>>

\* ------------------------------------------------------------------- Next
Construct ==
    \/ CreateContainer
    \/ GetRootPageId
    \/ GetRootPageIdNoPages

FullSync ==
    \/ DispatchFull
    \/ GetPageContent
    \/ CallUpload
    \/ GetChildPages
    \/ Recurse
    \/ EndFor
    \/ FullDone

Upload ==
    \/ UploadBlob
    \/ SetBlobMetadata

IncrementalSync ==
    \/ DispatchIncremental
    \/ \E S \in SUBSET Pages : Cql(S)
    \/ IncGetPageContent
    \/ BuildFullPath
    \/ IncrementalDone

Failures ==
    \/ CreateContainerFails
    \/ GetRootPageIdFails
    \/ GetPageContentFails
    \/ GetChildPagesFails
    \/ UploadBlobNoContainer
    \/ UploadBlobFails
    \/ SetBlobMetadataFails
    \/ CqlFails
    \/ IncGetPageContentFails
    \/ BuildFullPathFails

\* One request from either entry point.  EditPage is left to FullTwiceSpec:
\* each fetch reads title, body and version in one GET, so an edit shows only
\* in what a later request uploads.
Next ==
    \/ \E space \in SpaceInputs, type \in TypeInputs : HttpTriggerMain(space, type)
    \/ \E malformed \in BOOLEAN, space \in SpaceInputs, type \in TypeInputs :
          ConfluenceSyncMain(malformed, space, type)
    \/ Construct
    \/ DispatchInvalid
    \/ FullSync
    \/ Upload
    \/ IncrementalSync
    \/ Failures

Spec == Init /\ [][Next]_vars

\* full syncs only, both entry points, no upstream failure
NextFullTwice ==
    \/ \E p \in Pages : EditPage(p)
    \/ \E space \in {"SIA", "OPS"} : HttpTriggerMain(space, "full")
    \/ \E space \in {"SIA", "OPS"} : ConfluenceSyncMain(FALSE, space, "full")
    \/ Construct
    \/ FullSync
    \/ Upload

FullTwiceSpec == InitFullTwice /\ [][NextFullTwice]_vars

\* ----------------------------------------------------------------- claims
\* the last request has been answered: req, resp and log describe it
Responded == pc = "idle" /\ hist # <<>>

NoFailure == \A i \in DOMAIN log : log[i].ok

Calls(op, p) == {i \in DOMAIN log : log[i].op = op /\ log[i].page = p}

Visited(p) == Calls("get_page_content", p) # {}

Touched(p) == \E i \in DOMAIN log : log[i].page = p

FetchFailed(p) == \E i \in Calls("get_page_content", p) : ~log[i].ok

UploadFailedAt(p) ==
    {i \in DOMAIN log : /\ log[i].op \in {"upload_blob", "set_blob_metadata"}
                        /\ log[i].page = p
                        /\ ~log[i].ok}

Siblings(p) == {s \in Pages : s # p /\ parent[s] = parent[p]}

\* ancestor titles joined by '/', then '/' and '<title>.html'
ExpectedName(p) ==
    SlashJoin([i \in 1..Len(Ancestors(p)) |-> title[Ancestors(p)[i]]]
                  \o <<title[p] \o Html>>)

\* C1: a full sync in which no upstream call failed has called the upload
\* exactly once for every page of the tree, with the blob name made of the
\* ancestor titles joined by '/', then '/' and '<title>.html'.
C1_FullSyncUploadsEveryPageAtItsPath ==
    (Responded /\ req.type = "full" /\ resp = 200 /\ NoFailure) =>
        \A p \in Pages :
            /\ Cardinality(Calls("upload", p)) = 1
            /\ \A i \in Calls("upload", p) : log[i].name = ExpectedName(p)

\* C2: a request with a space and an unrecognized type is answered 400 and no
\* upstream call has been made when the response is returned.
C2_UnknownTypeRejectedBeforeUpstream ==
    (Responded /\ ~req.malformed /\ req.space \notin {Absent, ""}
               /\ req.type = "archive") =>
        (resp = 400 /\ log = <<>>)

\* C8: a request in which space or type is absent or empty is answered 400,
\* no session has been constructed and no upstream call has been made.
C8_MissingParameterRejected ==
    (Responded /\ (req.space \in {Absent, ""} \/ req.type \in {Absent, ""})) =>
        (resp = 400 /\ log = <<>> /\ session = <<>>)

C8_Witness ==
    /\ Responded
    /\ req.entry = "ConfluenceSync"
    /\ ~req.malformed
    /\ req.space = ""
    /\ req.type = "full"
    /\ resp = 400
    /\ log = <<>>

\* the call of process_page_full for p is still running
Active(p) == \E k \in DOMAIN stack : stack[k].page = p

\* C3 as stated: once the upload of p's object has failed, p's children are
\* not fetched and no descendant of p is visited.
C3_UploadFailureAbandonsSubtree ==
    req.type = "full" =>
        \A p \in Pages :
            UploadFailedAt(p) # {} =>
                /\ Calls("get_child_pages", p) = {}
                /\ \A d \in Descendants(p) : ~Touched(d)

\* C3 amended: a failed upload of p's object is swallowed inside the upload.
\* The call for p goes on: p's children are fetched after the failure, each
\* child is visited when that fetch succeeds, and p's siblings are visited.
C3_UploadFailureKeepsSubtree ==
    req.type = "full" =>
        \A p \in Pages :
            \A i \in UploadFailedAt(p) :
                /\ up = <<>> =>
                      \/ Active(p)
                      \/ \E j \in Calls("get_child_pages", p) : j > i
                /\ Responded =>
                      /\ \E j \in Calls("get_child_pages", p) : j > i
                      /\ (\A j \in Calls("get_child_pages", p) : log[j].ok) =>
                            \A c \in Pages : parent[c] = p => Visited(c)
                      /\ \A s \in Siblings(p) : Visited(s)

C3_Witness ==
    /\ Responded
    /\ req.type = "full"
    /\ \E p \in Pages :
          /\ UploadFailedAt(p) # {}
          /\ \E c, s \in Pages :
                /\ parent[c] = p /\ s \in Siblings(p) /\ s > p
                /\ Calls("set_blob_metadata", c) # {}
                /\ Calls("set_blob_metadata", s) # {}

\* C4: when the content fetch of a child page C has failed, no descendant of
\* C is fetched or uploaded, and once the sync has returned every sibling of
\* C has been visited, with an upload call for each sibling whose own content
\* fetch succeeded.
C4_FetchFailureSkipsOnlyItsSubtree ==
    req.type = "full" =>
        \A c \in Pages :
            (parent[c] # 0 /\ FetchFailed(c)) =>
                /\ \A d \in Descendants(c) : ~Touched(d)
                /\ Calls("upload", c) = {}
                /\ Responded =>
                      \A s \in Siblings(c) :
                          /\ Visited(s)
                          /\ ~FetchFailed(s) => Calls("upload", s) # {}

C4_Witness ==
    /\ Responded
    /\ req.type = "full"
    /\ \E c, s, d \in Pages :
          /\ FetchFailed(c)
          /\ parent[d] = c
          /\ s \in Siblings(c) /\ s > c
          /\ Calls("set_blob_metadata", s) # {}
          /\ ~Touched(d)

\* C9: in a full sync, the content fetch and the upload call of a page come
\* after the upload call and the upload attempt of each of its ancestors, and
\* the children of a page are fetched after its own upload was attempted.
C9_PreOrder ==
    req.type = "full" =>
        \A j \in DOMAIN log :
            /\ log[j].op \in {"get_page_content", "upload"} =>
                  \A k \in 1..Len(Ancestors(log[j].page)) :
                      /\ \E i \in Calls("upload", Ancestors(log[j].page)[k]) : i < j
                      /\ \E i \in Calls("upload_blob", Ancestors(log[j].page)[k]) : i < j
            /\ log[j].op = "get_child_pages" =>
                  \E i \in Calls("upload_blob", log[j].page) : i < j

C9_Witness ==
    /\ Responded
    /\ req.type = "full"
    /\ \E d \in Pages :
          /\ Len(Ancestors(d)) = 2
          /\ Calls("set_blob_metadata", d) # {}
          /\ Calls("get_child_pages", d) # {}

\* the page_ids of the last incremental sync
Queried == {inc.ids[k] : k \in DOMAIN inc.ids}

\* C5: an incremental sync in which no upstream call failed has called the
\* upload exactly once, at the ancestor-title path, for every page the query
\* returned, and for no other page.
C5_IncrementalUploadsExactlyTheQueried ==
    (Responded /\ req.type = "incremental" /\ resp = 200 /\ NoFailure) =>
        \A p \in Pages :
            IF p \in Queried
            THEN /\ Cardinality(Calls("upload", p)) = 1
                 /\ \A i \in Calls("upload", p) : log[i].name = ExpectedName(p)
            ELSE Calls("upload", p) = {}

\* C10: in an incremental sync, when the content fetch or the ancestor fetch
\* of one queried page has failed, the pages listed after it are still
\* fetched and uploaded.
C10_IncrementalContainsPageErrors ==
    (Responded /\ req.type = "incremental") =>
        \A k \in DOMAIN inc.ids :
            (\E i \in DOMAIN log :
                /\ log[i].op \in {"get_page_content", "get_page_ancestors"}
                /\ log[i].page = inc.ids[k]
                /\ ~log[i].ok) =>
                \A m \in DOMAIN inc.ids :
                    m > k => (Visited(inc.ids[m]) /\ Calls("upload", inc.ids[m]) # {})

\* C6: every object in a container carries a created_date equal to the
\* timestamp of the page revision that is its content.
C6_MetadataMatchesContent ==
    \A c \in DOMAIN store :
        \A b \in store[c] :
            \E kv \in b.metadata : kv[1] = "created_date" /\ kv[2] = b.content.rev

\* C7: when two full syncs of the same space have completed one after the
\* other with no edit of the wiki in between, the containers hold after the
\* second exactly what they held after the first: the same blob names with
\* the same content and metadata.
C7_FullSyncIdempotent ==
    \A k \in DOMAIN hist :
        (/\ k > 1
         /\ hist[k].type = "full" /\ hist[k - 1].type = "full"
         /\ hist[k].status = 200 /\ hist[k - 1].status = 200
         /\ hist[k].space = hist[k - 1].space
         /\ hist[k].rev = hist[k - 1].rev) =>
            hist[k].store = hist[k - 1].store

C7_Witness ==
    /\ Len(hist) = 2
    /\ hist[1].type = "full" /\ hist[2].type = "full"
    /\ hist[1].status = 200 /\ hist[2].status = 200
    /\ hist[1].space = "SIA" /\ hist[2].space = "SIA"
    /\ hist[1].rev = hist[2].rev
    /\ Cardinality(hist[2].store["public"]) >= 3
    /\ \A b \in hist[2].store["public"] : b.metadata # {}

====
